---- MODULE Spec2Model ----
(***************************************************************************)
(* Project dashboard: load -> join -> aggregate -> present.                *)
(*                                                                         *)
(* The two CSV exports (dashboard.csv, projects.csv) are the environment;  *)
(* one refresh (update_dashboard) is one action that reads the wall clock  *)
(* and runs the whole pipeline of src/callbacks.py and                     *)
(* src/data_processing.py.                                                 *)
(*                                                                         *)
(* Cells.  A CSV cell is a string ("" is an empty cell).  A data-frame     *)
(* cell is one of                                                          *)
(*     [str |-> s]    an object (string) value                             *)
(*     [nan |-> TRUE] a missing value (NaN / None)                         *)
(*     [ts  |-> d]    a parsed timestamp, d = day number                   *)
(*     [nat |-> TRUE] a missing timestamp (NaT)                            *)
(* A data frame is [columns |-> set of names, rows |-> sequence of rows],  *)
(* every row a function from the column names to cells.                    *)
(***************************************************************************)
EXTENDS Integers, Sequences, FiniteSets, TLC

VARIABLES taskFile,       \* contents of .../exports/dashboard.csv
          projFile,       \* contents of .../exports/projects.csv
          df,             \* result of load_and_process_data in the last refresh
          progress_data,  \* result of calculate_progress in the last refresh
          out,            \* the callback outputs of the last refresh
          fs,             \* the file system: what each path is and who may read it
          call,           \* the last direct call of a helper and what it returned
          n_clicks,       \* the click counts of the open-path buttons of the table
          notification    \* what the last run of handle_button_click did

vars == <<taskFile, projFile, df, progress_data, out, fs, call, n_clicks, notification>>

(***************************************************************************)
(* Bounds                                                                  *)
(***************************************************************************)
MaxTasks    == 2    \* data rows in dashboard.csv
MaxProjRecs == 2    \* data rows in projects.csv
MaxDay      == 2    \* calendar days 1..MaxDay appear in the data

(***************************************************************************)
(* Cells                                                                   *)
(***************************************************************************)
Str(s) == [str |-> s]
Ts(d)  == [ts |-> d]
NaN    == [nan |-> TRUE]
NaT    == [nat |-> TRUE]

isna(c)  == "nan" \in DOMAIN c \/ "nat" \in DOMAIN c
IsStr(c) == "str" \in DOMAIN c
IsTs(c)  == "ts" \in DOMAIN c

Days == 1..MaxDay

\* the text of day d as the exports write it
DateStr(d) == "2024-01-0" \o ToString(d)

\* the task_status text of a finished task and the task_milestone marker, in ASCII
DONE == "kanryo"
MARK == "o"

EmptyDF == [columns |-> {}, rows |-> <<>>]

len(frame) == Len(frame.rows)

\* sequences over S of length 0..n
SeqUpTo(S, n) == UNION {[1..k -> S] : k \in 0..n}

RECURSIVE SumSeq(_)
SumSeq(s) == IF s = <<>> THEN 0 ELSE Head(s) + SumSeq(Tail(s))

\* boolean indexing s[mask]: the subsequence of s at the positions in I, in order
RECURSIVE Pick(_, _)
Pick(s, I) ==
    IF I = {} THEN <<>>
    ELSE LET m == CHOOSE i \in I : \A j \in I : i >= j
         IN Append(Pick(s, I \ {m}), s[m])

(***************************************************************************)
(* Path Validator (validate_file_path) over a fixed file system            *)
(***************************************************************************)
\* Path(path).resolve(): the exports are referred to relative to C:/
resolve(p) ==
    CASE p = "exports/prjA"   -> "C:/exports/prjA"
      [] p = "exports/prjB"   -> "C:/exports/prjB"
      [] p = "exports/a.xlsx" -> "C:/exports/a.xlsx"
      [] p = "exports/b.xlsx" -> "C:/exports/b.xlsx"
      [] OTHER                -> p

\* the absolute paths the model distinguishes
PathTexts == {"C:/exports/prjA", "C:/exports/prjB", "C:/exports/a.xlsx",
              "C:/exports/b.xlsx", "C:/exports/notes.txt", "C:/exports/a?.xlsx"}

Missing == [kind |-> "none", readable |-> FALSE]

\* what the file system holds at p
entry(p) == IF p \in DOMAIN fs THEN fs[p] ELSE Missing

\* os.path.isdir, os.path.exists, os.access(p, os.R_OK)
isdir(p)       == entry(p).kind = "dir"
exists(p)      == entry(p).kind # "none"
readable(p)    == entry(p).readable
\* the path text: its extension is on the allow-list / it holds one of < > | " ? *
valid_ext(p)   == p \in {"C:/exports/a.xlsx", "C:/exports/b.xlsx", "C:/exports/a?.xlsx"}
has_badchar(p) == p \in {"C:/exports/a?.xlsx"}

validate_file_path(path, allow_directories) ==
    IF isna(path) \/ path = Str("") THEN NaN
    ELSE LET normalized_path == resolve(path.str) IN
         IF isdir(normalized_path)
         THEN (IF allow_directories THEN Str(normalized_path) ELSE NaN)
         ELSE IF ~valid_ext(normalized_path) THEN NaN
         ELSE IF has_badchar(normalized_path) THEN NaN
         ELSE IF ~exists(normalized_path) THEN NaN
         ELSE IF ~readable(normalized_path) THEN NaN
         ELSE Str(normalized_path)

(***************************************************************************)
(* Data Loader                                                             *)
(***************************************************************************)
\* pd.read_csv: a missing or unparsable file raises; an empty cell is NaN
read_csv(file) ==
    IF file.status # "ok" THEN [exc |-> TRUE, frame |-> EmptyDF]
    ELSE [exc |-> FALSE,
          frame |-> [columns |-> file.columns,
                     rows |-> [i \in 1..Len(file.rows) |->
                                [c \in file.columns |->
                                   IF file.rows[i][c] = "" THEN NaN
                                   ELSE Str(file.rows[i][c])]]]]

\* pd.to_datetime(value, errors='coerce')
to_datetime(c) ==
    IF IsTs(c) THEN c
    ELSE IF IsStr(c) /\ (\E d \in Days : DateStr(d) = c.str)
         THEN Ts(CHOOSE d \in Days : DateStr(d) = c.str)
         ELSE NaT

date_columns == {"task_start_date", "task_finish_date", "created_at"}

\* for col in date_columns: if col in df.columns: df[col] = pd.to_datetime(...)
coerce_dates(frame) ==
    [columns |-> frame.columns,
     rows |-> [i \in 1..Len(frame.rows) |->
                [c \in frame.columns |->
                   IF c \in date_columns THEN to_datetime(frame.rows[i][c])
                   ELSE frame.rows[i][c]]]]

\* the rows of `right` whose project_id equals that of left row l, in right order
\* (pandas matches a missing key with a missing key)
Matches(l, right) ==
    Pick(right.rows, {j \in 1..Len(right.rows) :
                        right.rows[j]["project_id"] = l["project_id"]})

RECURSIVE Flatten(_)
Flatten(ss) == IF ss = <<>> THEN <<>> ELSE Head(ss) \o Flatten(Tail(ss))

\* pd.merge(left, right, on='project_id', how='left'), right restricted to
\* project_id, project_path, ganttchart_path
merge_left(left, right) ==
    LET extra == {"project_path", "ganttchart_path"}
        joined(l, r) == [c \in left.columns \cup extra |->
                           IF c \in left.columns THEN l[c] ELSE r[c]]
        unmatched(l) == [c \in left.columns \cup extra |->
                           IF c \in left.columns THEN l[c] ELSE NaN]
        expand(l) == LET m == Matches(l, right) IN
                     IF m = <<>> THEN <<unmatched(l)>>
                     ELSE [j \in 1..Len(m) |-> joined(l, m[j])]
    IN [columns |-> left.columns \cup extra,
        rows |-> Flatten([i \in 1..Len(left.rows) |-> expand(left.rows[i])])]

\* dtype of a column read from CSV text: object when it holds a string,
\* float64 when every cell is empty
dtype(frame, col) ==
    IF frame.rows = <<>> THEN "empty"
    ELSE IF \E i \in 1..Len(frame.rows) : IsStr(frame.rows[i][col]) THEN "object"
    ELSE "float64"

\* pd.merge refuses (ValueError) to join a string key column with a numeric one
merge_keys_compatible(left, right) ==
    \/ dtype(left, "project_id") = "empty"
    \/ dtype(right, "project_id") = "empty"
    \/ dtype(left, "project_id") = dtype(right, "project_id")

\* the body of load_and_process_data's try block: exc = an exception was raised
load_body(tf, pf) ==
    LET t == read_csv(tf) IN
    IF t.exc THEN [exc |-> TRUE, frame |-> EmptyDF]
    ELSE IF pf.status = "absent" THEN [exc |-> FALSE, frame |-> t.frame]
    ELSE LET p == read_csv(pf) IN
    IF p.exc THEN [exc |-> TRUE, frame |-> EmptyDF]
    ELSE IF "ganttchart_path" \notin p.frame.columns
         THEN [exc |-> FALSE, frame |-> t.frame]
    ELSE LET validated ==
               [columns |-> p.frame.columns,
                rows |-> [i \in 1..Len(p.frame.rows) |->
                           [c \in p.frame.columns |->
                              IF c = "ganttchart_path"
                              THEN (IF isna(p.frame.rows[i][c]) THEN NaN
                                    ELSE validate_file_path(p.frame.rows[i][c], TRUE))
                              ELSE p.frame.rows[i][c]]]]
         IN
    \* projects_df[['project_id', 'project_path', 'ganttchart_path']] and on='project_id'
    IF \/ ~({"project_id", "project_path"} \subseteq p.frame.columns)
       \/ "project_id" \notin t.frame.columns
       \/ ~merge_keys_compatible(t.frame, p.frame)
    THEN [exc |-> TRUE, frame |-> EmptyDF]
    ELSE [exc |-> FALSE, frame |-> coerce_dates(merge_left(t.frame, validated))]

\* load_and_process_data with the join outside the try block: its failure propagates
load_and_process_data_unguarded(tf, pf) ==
    LET b == load_body(tf, pf) IN
    IF b.exc THEN [raised |-> ~read_csv(tf).exc, frame |-> EmptyDF]
    ELSE [raised |-> FALSE, frame |-> b.frame]

\* load_and_process_data: except Exception -> return pd.DataFrame()
load_and_process_data(tf, pf) ==
    LET b == load_body(tf, pf) IN
    IF b.exc THEN [raised |-> FALSE, frame |-> EmptyDF]
    ELSE [raised |-> FALSE, frame |-> b.frame]

(***************************************************************************)
(* Delay Detector                                                          *)
(***************************************************************************)
\* a comparison of the column with a datetime is defined: the column is
\* datetime64 (every cell a timestamp or NaT) or has no rows
is_datetime_column(frame, col) ==
    \A i \in 1..Len(frame.rows) : IsTs(frame.rows[i][col]) \/ frame.rows[i][col] = NaT

\* df[(df['task_finish_date'] < current_date) & (df['task_status'] != '完了')]
check_delays(frame, current_date) ==
    IF ~({"task_finish_date", "task_status"} \subseteq frame.columns)
       \/ ~is_datetime_column(frame, "task_finish_date")
    THEN [raised |-> TRUE, frame |-> EmptyDF]
    ELSE [raised |-> FALSE,
          frame |-> [columns |-> frame.columns,
                     rows |-> Pick(frame.rows,
                                {i \in 1..Len(frame.rows) :
                                   /\ IsTs(frame.rows[i]["task_finish_date"])
                                   /\ frame.rows[i]["task_finish_date"].ts < current_date
                                   /\ frame.rows[i]["task_status"] # Str(DONE)})]]

\* series.unique(): the distinct cells of a column, a missing value included
unique(frame, col) == {frame.rows[i][col] : i \in 1..Len(frame.rows)}

\* len(check_delays(df)['project_id'].unique())
get_delayed_projects_count(frame, current_date) ==
    LET delayed_tasks == check_delays(frame, current_date) IN
    IF delayed_tasks.raised \/ "project_id" \notin frame.columns
    THEN [raised |-> TRUE, count |-> 0]
    ELSE [raised |-> FALSE, count |-> Cardinality(unique(delayed_tasks.frame, "project_id"))]

(***************************************************************************)
(* Progress Aggregator                                                     *)
(***************************************************************************)
Num(n)  == [num |-> n]
X100(n) == [x100 |-> n]      \* the number n/100 (two decimals)
Inf     == [inf |-> TRUE]

NumProjects == 2
PidStr(k) == "P" \o ToString(k)
ProjectIds == {PidStr(k) : k \in 1..NumProjects}

\* the text contains the milestone marker (str.contains('○'))
contains_mark(s) == s \in {MARK, MARK \o MARK}

\* the column's dtype is object: it holds a string, or the frame has no rows
is_object_column(frame, col) ==
    frame.rows = <<>> \/ \E i \in 1..Len(frame.rows) : IsStr(frame.rows[i][col])

agg_columns == {"project_name", "process", "line", "task_id", "task_milestone",
                "task_start_date", "task_finish_date", "project_path", "ganttchart_path"}

\* groupby('project_id'): the keys in sorted order, rows with a missing key dropped
group_keys(frame) ==
    Pick([k \in 1..NumProjects |-> PidStr(k)],
         {k \in 1..NumProjects : \E i \in 1..Len(frame.rows) :
                                    frame.rows[i]["project_id"] = Str(PidStr(k))})

group_rows(frame, key) ==
    Pick(frame.rows, {i \in 1..Len(frame.rows) : frame.rows[i]["project_id"] = Str(key)})

\* GroupBy 'first': the first value of the group that is not missing
first(g, col) ==
    IF \A i \in 1..Len(g) : isna(g[i][col]) THEN NaN
    ELSE g[CHOOSE i \in 1..Len(g) :
             /\ ~isna(g[i][col])
             /\ \A j \in 1..(i - 1) : isna(g[j][col])][col]

\* GroupBy 'count': the values that are not missing
count(g, col) == Cardinality({i \in 1..Len(g) : ~isna(g[i][col])})

\* sum(df.loc[x.index, 'task_status'] == '完了')
completed(g) == Cardinality({i \in 1..Len(g) : g[i]["task_status"] = Str(DONE)})

\* x.str.contains('○').sum()
milestones(g) ==
    Cardinality({i \in 1..Len(g) : /\ IsStr(g[i]["task_milestone"])
                                   /\ contains_mark(g[i]["task_milestone"].str)})

\* GroupBy 'min' / 'max' of a datetime column, NaT skipped
date_min(g, col) ==
    LET ds == {g[i][col].ts : i \in {j \in 1..Len(g) : IsTs(g[j][col])}} IN
    IF ds = {} THEN NaT ELSE Ts(CHOOSE d \in ds : \A e \in ds : d <= e)

date_max(g, col) ==
    LET ds == {g[i][col].ts : i \in {j \in 1..Len(g) : IsTs(g[j][col])}} IN
    IF ds = {} THEN NaT ELSE Ts(CHOOSE d \in ds : \A e \in ds : d >= e)

\* (completed_tasks / total_tasks * 100).round(2), in hundredths
progress_of(c, t) ==
    IF t = 0 THEN (IF c = 0 THEN NaN ELSE Inf)
    ELSE X100((2 * c * 10000 + t) \div (2 * t))

\* (end_date - start_date).dt.days
duration_of(s, e) == IF IsTs(s) /\ IsTs(e) THEN Num(e.ts - s.ts) ELSE NaN

summary_row(frame, key) ==
    LET g == group_rows(frame, key)
        total == count(g, "task_id")
        start == date_min(g, "task_start_date")
        end   == date_max(g, "task_finish_date")
    IN [project_id      |-> Str(key),
        project_name    |-> first(g, "project_name"),
        process         |-> first(g, "process"),
        line            |-> first(g, "line"),
        total_tasks     |-> Num(total),
        completed_tasks |-> Num(completed(g)),
        milestone_count |-> Num(milestones(g)),
        start_date      |-> start,
        end_date        |-> end,
        project_path    |-> first(g, "project_path"),
        ganttchart_path |-> first(g, "ganttchart_path"),
        progress        |-> progress_of(completed(g), total),
        duration        |-> duration_of(start, end)]

progress_columns == {"project_id", "project_name", "process", "line", "total_tasks",
                     "completed_tasks", "milestone_count", "start_date", "end_date",
                     "project_path", "ganttchart_path", "progress", "duration"}

\* the body of calculate_progress's try block
progress_body(frame) ==
    IF "project_id" \notin frame.columns \/ ~(agg_columns \subseteq frame.columns)
    THEN [exc |-> TRUE, frame |-> EmptyDF]                \* KeyError
    ELSE LET keys == group_keys(frame) IN
    IF keys # <<>> /\ ( \/ "task_status" \notin frame.columns
                        \/ ~is_object_column(frame, "task_milestone")
                        \/ ~is_datetime_column(frame, "task_start_date")
                        \/ ~is_datetime_column(frame, "task_finish_date") )
    THEN [exc |-> TRUE, frame |-> EmptyDF]                \* KeyError, AttributeError, TypeError
    ELSE [exc |-> FALSE,
          frame |-> [columns |-> progress_columns,
                     rows |-> [k \in 1..Len(keys) |-> summary_row(frame, keys[k])]]]

\* calculate_progress: except Exception -> return pd.DataFrame()
calculate_progress(frame) ==
    LET b == progress_body(frame) IN
    IF b.exc THEN [raised |-> FALSE, frame |-> EmptyDF]
    ELSE [raised |-> FALSE, frame |-> b.frame]

(***************************************************************************)
(* Classification Helper and Milestone Lookup                              *)
(***************************************************************************)
\* progress >= k and progress < k ... on a float that may be NaN or inf
ge(x, k) == IF "x100" \in DOMAIN x THEN x.x100 >= k * 100 ELSE "inf" \in DOMAIN x
gt(x, k) == IF "x100" \in DOMAIN x THEN x.x100 > k * 100 ELSE "inf" \in DOMAIN x
le(x, k) == "x100" \in DOMAIN x /\ x.x100 <= k * 100
lt(x, k) == "x100" \in DOMAIN x /\ x.x100 < k * 100
eq(x, k) == "x100" \in DOMAIN x /\ x.x100 = k * 100

\* get_status_color with the bands exclusive at their lower bound (> for >=)
get_status_color_exclusive(progress, has_delay) ==
    IF has_delay THEN "danger"
    ELSE IF gt(progress, 90) THEN "success"
    ELSE IF gt(progress, 70) THEN "info"
    ELSE IF gt(progress, 50) THEN "warning"
    ELSE "neutral"

get_status_color(progress, has_delay) ==
    IF has_delay THEN "danger"
    ELSE IF ge(progress, 90) THEN "success"
    ELSE IF ge(progress, 70) THEN "info"
    ELSE IF ge(progress, 50) THEN "warning"
    ELSE "neutral"

\* insertion of row r into rows sorted by task_finish_date, after its equals
RECURSIVE insert_by_finish(_, _)
insert_by_finish(r, sorted) ==
    IF sorted = <<>> THEN <<r>>
    ELSE IF r["task_finish_date"].ts < Head(sorted)["task_finish_date"].ts
         THEN <<r>> \o sorted
         ELSE <<Head(sorted)>> \o insert_by_finish(r, Tail(sorted))

RECURSIVE sort_by_finish(_)
sort_by_finish(rows) ==
    IF rows = <<>> THEN <<>>
    ELSE insert_by_finish(rows[Len(rows)], sort_by_finish(SubSeq(rows, 1, Len(rows) - 1)))

\* get_next_milestone without the sort_values call: the rows in input order
get_next_milestone_unsorted(frame, current_date) ==
    IF ~({"task_milestone", "task_finish_date"} \subseteq frame.columns)
       \/ ~is_datetime_column(frame, "task_finish_date")
    THEN [raised |-> TRUE, frame |-> EmptyDF]
    ELSE [raised |-> FALSE,
          frame |-> [columns |-> frame.columns,
                     rows |-> Pick(frame.rows,
                                {i \in 1..Len(frame.rows) :
                                   /\ frame.rows[i]["task_milestone"] = Str(MARK)
                                   /\ IsTs(frame.rows[i]["task_finish_date"])
                                   /\ frame.rows[i]["task_finish_date"].ts > current_date})]]

\* df[(df['task_milestone'] == '○') & (df['task_finish_date'] > now)].sort_values(...)
get_next_milestone(frame, current_date) ==
    IF ~({"task_milestone", "task_finish_date"} \subseteq frame.columns)
       \/ ~is_datetime_column(frame, "task_finish_date")
    THEN [raised |-> TRUE, frame |-> EmptyDF]
    ELSE [raised |-> FALSE,
          frame |-> [columns |-> frame.columns,
                     rows |-> sort_by_finish(Pick(frame.rows,
                                {i \in 1..Len(frame.rows) :
                                   /\ frame.rows[i]["task_milestone"] = Str(MARK)
                                   /\ IsTs(frame.rows[i]["task_finish_date"])
                                   /\ frame.rows[i]["task_finish_date"].ts > current_date}))]]

\* next_milestone_format reading the last matching row (iloc[-1]) instead of the first
next_milestone_format_last(next_milestones, project_id, current_date) ==
    IF "project_id" \notin next_milestones.columns
    THEN [raised |-> TRUE, text |-> [sentinel |-> "-"]]
    ELSE LET milestone == Pick(next_milestones.rows,
                            {i \in 1..Len(next_milestones.rows) :
                               next_milestones.rows[i]["project_id"] = project_id})
         IN IF Len(milestone) = 0 THEN [raised |-> FALSE, text |-> [sentinel |-> "-"]]
            ELSE IF "task_name" \notin next_milestones.columns
                 THEN [raised |-> TRUE, text |-> [sentinel |-> "-"]]
            ELSE [raised |-> FALSE,
                  text |-> [task_name  |-> milestone[Len(milestone)]["task_name"],
                            days_until |-> milestone[Len(milestone)]["task_finish_date"].ts
                                             - current_date]]

next_milestone_format(next_milestones, project_id, current_date) ==
    IF "project_id" \notin next_milestones.columns
    THEN [raised |-> TRUE, text |-> [sentinel |-> "-"]]
    ELSE LET milestone == Pick(next_milestones.rows,
                            {i \in 1..Len(next_milestones.rows) :
                               next_milestones.rows[i]["project_id"] = project_id})
         IN IF Len(milestone) = 0 THEN [raised |-> FALSE, text |-> [sentinel |-> "-"]]
            ELSE IF "task_name" \notin next_milestones.columns
                 THEN [raised |-> TRUE, text |-> [sentinel |-> "-"]]
            ELSE [raised |-> FALSE,
                  text |-> [task_name  |-> milestone[1]["task_name"],
                            days_until |-> milestone[1]["task_finish_date"].ts - current_date]]

(***************************************************************************)
(* Presentation: table and charts                                          *)
(***************************************************************************)
OPEN_FOLDER == "open-folder"    \* the button text of the folder link
OPEN_CHART  == "open-chart"     \* the button text of the chart link

create_safe_link(path, text, allow_directories) ==
    LET validated_path == validate_file_path(path, allow_directories) IN
    [id |-> [type |-> "open-path-button",
             path |-> IF isna(validated_path) THEN "" ELSE validated_path.str,
             action |-> text],
     disabled |-> isna(validated_path)]

table_row(frame, row, next_milestones, delayed_tasks, current_date) ==
    LET has_delay == \E i \in 1..Len(delayed_tasks.rows) :
                        delayed_tasks.rows[i]["project_id"] = row["project_id"]
        ms == next_milestone_format(next_milestones, row["project_id"], current_date)
    IN [raised |-> ms.raised,
        tr |-> [project_id     |-> row["project_id"],
                project_name   |-> row["project_name"],
                progress       |-> row["progress"],
                color          |-> get_status_color(row["progress"], has_delay),
                status         |-> IF has_delay THEN "delayed"
                                   ELSE IF lt(row["progress"], 100) THEN "in_progress"
                                   ELSE "done",
                next_milestone |-> ms.text,
                task_progress  |-> <<row["completed_tasks"], row["total_tasks"]>>,
                links          |-> <<create_safe_link(row["project_path"], OPEN_FOLDER, TRUE),
                                     create_safe_link(row["ganttchart_path"], OPEN_CHART, FALSE)>>]]

create_project_table(frame, progress, current_date) ==
    LET next_milestones == get_next_milestone(frame, current_date)
        delayed_tasks   == check_delays(frame, current_date)
    IN IF next_milestones.raised \/ delayed_tasks.raised
          \/ (progress.rows # <<>> /\ ~(progress_columns \subseteq progress.columns))
       THEN [raised |-> TRUE, rows |-> <<>>]
       ELSE LET trs == [k \in 1..Len(progress.rows) |->
                          table_row(frame, progress.rows[k], next_milestones.frame,
                                    delayed_tasks.frame, current_date)]
            IN [raised |-> \E k \in 1..Len(trs) : trs[k].raised,
                rows |-> [k \in 1..Len(trs) |-> trs[k].tr]]

\* progress_data[col]: the column as a sequence
column(progress, col) == [k \in 1..Len(progress.rows) |-> progress.rows[k][col]]

\* len(progress_data[mask]): the number of positions of a column in the set I
count_in(I) == Cardinality(I)

create_progress_distribution(progress) ==
    IF "progress" \notin progress.columns THEN [raised |-> TRUE, counts |-> <<>>]
    ELSE LET p == column(progress, "progress") IN
         [raised |-> FALSE,
          counts |-> << count_in({k \in DOMAIN p : le(p[k], 25)}),
                        count_in({k \in DOMAIN p : gt(p[k], 25) /\ le(p[k], 50)}),
                        count_in({k \in DOMAIN p : gt(p[k], 50) /\ le(p[k], 75)}),
                        count_in({k \in DOMAIN p : gt(p[k], 75) /\ lt(p[k], 100)}),
                        count_in({k \in DOMAIN p : eq(p[k], 100)}) >>]

num_le(x, k) == "num" \in DOMAIN x /\ x.num <= k
num_gt(x, k) == "num" \in DOMAIN x /\ x.num > k

create_duration_distribution(progress) ==
    IF "duration" \notin progress.columns THEN [raised |-> TRUE, counts |-> <<>>]
    ELSE LET d == column(progress, "duration") IN
         [raised |-> FALSE,
          counts |-> << count_in({k \in DOMAIN d : num_le(d[k], 30)}),
                        count_in({k \in DOMAIN d : num_gt(d[k], 30) /\ num_le(d[k], 90)}),
                        count_in({k \in DOMAIN d : num_gt(d[k], 90) /\ num_le(d[k], 180)}),
                        count_in({k \in DOMAIN d : num_gt(d[k], 180) /\ num_le(d[k], 365)}),
                        count_in({k \in DOMAIN d : num_gt(d[k], 365)}) >>]

(***************************************************************************)
(* The refresh callback                                                    *)
(***************************************************************************)
\* the calendar month of day d (months of 30 days)
month(d) == (((d - 1) \div 30) % 12) + 1

\* len(df[(milestone == '○') & (finish.dt.month == now.month)]['project_id'].unique())
milestone_projects(frame, current_date) ==
    IF ~({"task_milestone", "task_finish_date", "project_id"} \subseteq frame.columns)
       \/ ~is_datetime_column(frame, "task_finish_date")
    THEN [raised |-> TRUE, count |-> 0]
    ELSE [raised |-> FALSE,
          count |-> Cardinality({frame.rows[i]["project_id"] :
                        i \in {j \in 1..Len(frame.rows) :
                                 /\ frame.rows[j]["task_milestone"] = Str(MARK)
                                 /\ IsTs(frame.rows[j]["task_finish_date"])
                                 /\ month(frame.rows[j]["task_finish_date"].ts)
                                      = month(current_date)}})]

\* str(n)
str(n) == ToString(n)

\* the except branch showing placeholders instead of zero counters
Fallback_placeholders(current_date) ==
    [kind |-> "fallback",
     total_projects |-> "-", active_projects |-> "-",
     delayed_projects |-> "-", milestone_projects |-> "-",
     table |-> [message |-> "load failed"],
     progress_fig |-> [empty |-> TRUE],
     duration_fig |-> [empty |-> TRUE],
     update_time |-> current_date]

\* the except branch of update_dashboard
Fallback(current_date) ==
    [kind |-> "fallback",
     total_projects |-> "0", active_projects |-> "0",
     delayed_projects |-> "0", milestone_projects |-> "0",
     table |-> [message |-> "load failed"],
     progress_fig |-> [empty |-> TRUE],
     duration_fig |-> [empty |-> TRUE],
     update_time |-> current_date]

\* the body of update_dashboard's try block, given what the loader and the
\* aggregator returned: exc = an exception was raised
dashboard_body(load, prog, current_date) ==
    IF load.raised \/ prog.raised THEN [exc |-> TRUE, out |-> [kind |-> "none"]]
    ELSE LET frame    == load.frame
             progress == prog.frame
         IN
    IF "progress" \notin progress.columns                  \* progress_data['progress']
    THEN [exc |-> TRUE, out |-> [kind |-> "none"]]
    ELSE LET delayed    == get_delayed_projects_count(frame, current_date)
             milestones_ == milestone_projects(frame, current_date)
             table      == create_project_table(frame, progress, current_date)
             pfig       == create_progress_distribution(progress)
             dfig       == create_duration_distribution(progress)
         IN
    IF delayed.raised \/ milestones_.raised \/ table.raised \/ pfig.raised \/ dfig.raised
    THEN [exc |-> TRUE, out |-> [kind |-> "none"]]
    ELSE [exc |-> FALSE,
          out |-> [kind |-> "ok",
                   total_projects     |-> str(len(progress)),
                   active_projects    |-> str(count_in({k \in DOMAIN column(progress, "progress") :
                                            lt(progress.rows[k]["progress"], 100)})),
                   delayed_projects   |-> str(delayed.count),
                   milestone_projects |-> str(milestones_.count),
                   table        |-> [rows |-> table.rows],
                   progress_fig |-> [counts |-> pfig.counts],
                   duration_fig |-> [counts |-> dfig.counts],
                   update_time  |-> current_date]]

\* update_dashboard catching only the loader's and the aggregator's failures
dashboard_outputs_narrow_except(load, prog, current_date) ==
    LET b == dashboard_body(load, prog, current_date) IN
    IF b.exc THEN [raised |-> ~(load.raised \/ prog.raised), out |-> Fallback(current_date)]
    ELSE [raised |-> FALSE, out |-> b.out]

\* update_dashboard: except Exception -> the fallback values
dashboard_outputs(load, prog, current_date) ==
    LET b == dashboard_body(load, prog, current_date) IN
    IF b.exc THEN [raised |-> FALSE, out |-> Fallback(current_date)]
    ELSE [raised |-> FALSE, out |-> b.out]

\* update_dashboard keeping the rows of the previous load instead of reading again
update_dashboard_cached(tf, pf, current_date) ==
    LET load == IF df.frame.rows # <<>> THEN df ELSE load_and_process_data(tf, pf)
        prog == IF load.raised THEN [raised |-> FALSE, frame |-> EmptyDF]
                ELSE calculate_progress(load.frame)
        res  == dashboard_outputs(load, prog, current_date)
    IN [df |-> load, progress_data |-> prog, raised |-> res.raised, out |-> res.out]

\* one run of update_dashboard over the files and the clock: what the loader
\* returned, what the aggregator returned, whether it raised, its outputs
update_dashboard(tf, pf, current_date) ==
    LET load == load_and_process_data(tf, pf)
        prog == IF load.raised THEN [raised |-> FALSE, frame |-> EmptyDF]
                ELSE calculate_progress(load.frame)
        res  == dashboard_outputs(load, prog, current_date)
    IN [df |-> load, progress_data |-> prog, raised |-> res.raised, out |-> res.out]

(***************************************************************************)
(* The open-path callback                                                  *)
(***************************************************************************)
\* open_file_or_folder: validate, then hand the path to the operating system
open_file_or_folder(path) ==
    LET is_directory   == isdir(path)
        validated_path == validate_file_path(Str(path), is_directory)
    IN IF isna(validated_path)
       THEN [success |-> FALSE, message |-> "Invalid path specified"]
       ELSE [success |-> TRUE, message |-> "File opened successfully"]

\* handle_button_click for a click (ctx.triggered set, some n_clicks > 0):
\* the button it acts on, what it opened and the message it shows
handle_button_click(n_clicks_list, button_ids) ==
    LET button_index == CHOOSE i \in 1..Len(n_clicks_list) :
                           /\ n_clicks_list[i] > 0
                           /\ \A j \in 1..(i - 1) : ~(n_clicks_list[j] > 0)
        path   == button_ids[button_index].path
        action == button_ids[button_index].action
    IN IF path = ""
       THEN [path |-> path, action |-> action, opened |-> FALSE,
             message |-> "Invalid path specified"]
       ELSE LET result == open_file_or_folder(path) IN
            [path |-> path, action |-> action, opened |-> result.success,
             message |-> result.message]

(***************************************************************************)
(* The input files                                                         *)
(***************************************************************************)
TaskColumns == {"project_id", "project_name", "process", "line", "task_id", "task_name",
                "task_start_date", "task_finish_date", "task_status", "task_milestone"}

ProjColumns == {"project_id", "project_path", "ganttchart_path"}

OPEN == "open"    \* any task_status text other than DONE

\* a line of dashboard.csv; "" is an empty cell
TaskRow(pid, tid, status, ms, finish) ==
    [project_id |-> pid, project_name |-> "Alpha", process |-> "design", line |-> "L1",
     task_id |-> tid, task_name |-> "review", task_start_date |-> DateStr(1),
     task_finish_date |-> finish, task_status |-> status, task_milestone |-> ms,
     created_at |-> finish]

\* the date texts of the exports: a date, an empty cell, free text
DateTexts == {DateStr(d) : d \in Days} \cup {"", "soon"}

\* the project identifiers the lines of the exports carry: the first and the
\* last project, and an empty cell
FilePids == {PidStr(1), PidStr(NumProjects), ""}

\* lines that differ in what the aggregator counts
AggRows == {TaskRow(pid, tid, status, MARK, DateStr(1)) :
              pid \in FilePids, tid \in {"T1", ""}, status \in {DONE, OPEN}}

\* lines that differ in their milestone marker
MarkRows == {TaskRow(PidStr(1), "T1", status, ms, DateStr(MaxDay)) :
               status \in {DONE, OPEN}, ms \in {MARK, MARK \o MARK, ""}}

\* lines that differ in their start and finish dates
SpanRows == {[TaskRow(PidStr(1), "T1", OPEN, MARK, finish) EXCEPT !["task_start_date"] = start] :
               start \in {DateStr(1), DateStr(MaxDay)},
               finish \in {DateStr(1), DateStr(MaxDay), ""}}

\* lines that differ in the project name they carry
NameRows == {[TaskRow(PidStr(1), "T1", OPEN, MARK, DateStr(1)) EXCEPT !["project_name"] = name] :
               name \in {"Alpha", "Beta", ""}}

\* lines that differ in what the loader parses
LoadRows == {TaskRow(PidStr(1), "T1", OPEN, MARK, finish) : finish \in DateTexts}

\* lines that differ in what the loader joins
JoinRows == {TaskRow(pid, "T1", OPEN, MARK, DateStr(1)) : pid \in {PidStr(1), ""}}

Restrict(row, cols) == [c \in cols |-> row[c]]

OkFile(cols, rows) ==
    [status |-> "ok", columns |-> cols,
     rows |-> [i \in 1..Len(rows) |-> Restrict(rows[i], cols)]]

NoFile(status) == [status |-> status, columns |-> {}, rows |-> <<>>]

AggTaskFiles == {OkFile(TaskColumns, rows) : rows \in SeqUpTo(AggRows, MaxTasks)}

MarkTaskFiles == {OkFile(TaskColumns, rows) : rows \in SeqUpTo(MarkRows, MaxTasks)}

SpanTaskFiles == {OkFile(TaskColumns, rows) : rows \in SeqUpTo(SpanRows, MaxTasks)}

NameTaskFiles == {OkFile(TaskColumns, rows) : rows \in SeqUpTo(NameRows, MaxTasks)}

JoinTaskFiles == {OkFile(TaskColumns, rows) : rows \in SeqUpTo(JoinRows, MaxTasks)}

\* dashboard.csv missing, unparsable, with a column dropped or with created_at
ColsTaskFiles ==
    {NoFile("missing"), NoFile("malformed")}
    \cup {OkFile(cols, rows) :
            cols \in {TaskColumns, TaskColumns \cup {"created_at"},
                      TaskColumns \ {"line"}, TaskColumns \ {"project_id"},
                      TaskColumns \ {"task_name"}},
            rows \in SeqUpTo(LoadRows, MaxTasks)}

\* a line of projects.csv: a project with an existing folder and chart, a
\* project whose folder and chart do not exist, a line with empty cells
ProjRecs == {[project_id |-> pid, project_path |-> pp.folder, ganttchart_path |-> pp.chart] :
               pid \in FilePids \ {""},
               pp \in {[folder |-> "exports/prjA", chart |-> "exports/a.xlsx"],
                       [folder |-> "exports/prjB", chart |-> "exports/b.xlsx"]}}
            \cup {[project_id |-> "", project_path |-> "", ganttchart_path |-> ""]}

\* projects.csv as the exporter writes it: one line per project
GoodProjFile ==
    OkFile(ProjColumns,
           [k \in 1..NumProjects |->
              [project_id |-> PidStr(k), project_path |-> "exports/prjA",
               ganttchart_path |-> "exports/a.xlsx"]])

\* projects.csv absent, unparsable, complete, or with a path column dropped
ProjFiles ==
    {NoFile("absent"), NoFile("malformed")}
    \cup {OkFile(ProjColumns, rows) : rows \in SeqUpTo(ProjRecs, MaxProjRecs)}
    \cup {OkFile(cols, rows) :
            cols \in {ProjColumns \ {"ganttchart_path"}, ProjColumns \ {"project_path"}},
            rows \in {<<>>} \cup {<<r>> : r \in ProjRecs}}

\* the disk of the dashboard host: prjA is a folder, a.xlsx a readable file,
\* nothing else exists
DiskFS ==
    [p \in PathTexts |->
       CASE p = "C:/exports/prjA"   -> [kind |-> "dir", readable |-> TRUE]
         [] p = "C:/exports/a.xlsx" -> [kind |-> "file", readable |-> TRUE]
         [] OTHER                   -> Missing]

\* the wall clock (it never runs backwards): from the first day to past the last
Clock == 1..(MaxDay + 1)

(***************************************************************************)
(* The state machine                                                       *)
(***************************************************************************)
NoFrame == [raised |-> FALSE, frame |-> EmptyDF]

NoCall == [fn |-> "none"]

NoNotification == [kind |-> "none"]

\* the open-path buttons of the rendered outputs, in layout order: for every
\* table row its folder button and its chart button
buttons(o) ==
    IF "table" \in DOMAIN o /\ "rows" \in DOMAIN o.table
    THEN Flatten([k \in 1..Len(o.table.rows) |-> o.table.rows[k].links])
    ELSE <<>>

Init ==
    /\ \/ taskFile \in AggTaskFiles /\ projFile = GoodProjFile
       \/ taskFile \in MarkTaskFiles /\ projFile = GoodProjFile
       \/ taskFile \in SpanTaskFiles /\ projFile = GoodProjFile
       \/ taskFile \in NameTaskFiles /\ projFile = GoodProjFile
       \/ taskFile \in JoinTaskFiles /\ projFile \in ProjFiles
       \/ taskFile \in ColsTaskFiles /\ projFile \in {NoFile("absent"), GoodProjFile}
    /\ df = NoFrame
    /\ progress_data = NoFrame
    /\ out = [kind |-> "initial"]
    /\ fs = DiskFS
    /\ call = NoCall
    /\ n_clicks = <<>>
    /\ notification = NoNotification

\* the update button fires the callback, which reads the files and the clock
UpdateDashboard ==
    \E current_date \in {t \in Clock : out.kind = "initial" \/ t >= out.update_time} :
        LET r == update_dashboard(taskFile, projFile, current_date) IN
        /\ df' = r.df
        /\ progress_data' = r.progress_data
        /\ out' = IF r.raised THEN [kind |-> "raised"] ELSE r.out
        /\ n_clicks' = [i \in 1..Len(buttons(out')) |-> 0]
        /\ UNCHANGED <<taskFile, projFile, fs, call, notification>>

Next == UpdateDashboard

Spec == Init /\ [][Next]_vars

(***************************************************************************)
(* The helpers called on their own                                         *)
(***************************************************************************)
\* the lower bounds of the colour bands and the complete mark
Thresholds == {50, 70, 90, 100}

\* the progress values passed: nothing done, each threshold and the hundredth
\* below and above it, twice complete, undefined (0/0) and infinite (n/0)
Percents ==
    {X100(0), X100(20000), NaN, Inf}
    \cup {X100(k * 100 + e) : k \in Thresholds, e \in {-1, 0, 1}}

\* what one path may be on a disk
FsEntries == {Missing} \cup {[kind |-> k, readable |-> r] :
                               k \in {"file", "dir"}, r \in BOOLEAN}

\* the disks: the host's disk with one path changed
FileSystems == {[DiskFS EXCEPT ![p] = e] : p \in PathTexts, e \in FsEntries}

\* the path arguments: nothing, the empty text, relative and absolute paths
PathInputs ==
    {NaN, Str("")}
    \cup {Str(p) : p \in PathTexts \cup {"exports/prjA", "exports/a.xlsx"}}

CallInit ==
    /\ taskFile = NoFile("missing")
    /\ projFile = NoFile("absent")
    /\ df = NoFrame
    /\ progress_data = NoFrame
    /\ out = [kind |-> "initial"]
    /\ fs \in FileSystems
    /\ call = NoCall
    /\ n_clicks = <<>>
    /\ notification = NoNotification

StatusColor ==
    \E progress \in Percents, has_delay \in BOOLEAN :
        /\ call' = [fn |-> "get_status_color", progress |-> progress,
                    has_delay |-> has_delay,
                    result |-> get_status_color(progress, has_delay)]
        /\ UNCHANGED <<taskFile, projFile, df, progress_data, out, fs,
                       n_clicks, notification>>

ValidatePath ==
    \E path \in PathInputs, allow_directories \in BOOLEAN :
        /\ call' = [fn |-> "validate_file_path", path |-> path,
                    allow_directories |-> allow_directories,
                    result |-> validate_file_path(path, allow_directories)]
        /\ UNCHANGED <<taskFile, projFile, df, progress_data, out, fs,
                       n_clicks, notification>>

CallNext == StatusColor \/ ValidatePath

CallSpec == CallInit /\ [][CallNext]_vars

(***************************************************************************)
(* The milestone lookup called on its own                                  *)
(***************************************************************************)
\* lines that differ in what the milestone lookup selects: marked lines of two
\* projects and an unmarked line; the task finishing on the first day is the
\* review, the others are releases
LookupLines ==
    {[TaskRow(pid, "T1", OPEN, ms, finish) EXCEPT
        !["task_name"] = IF finish = DateStr(1) THEN "review" ELSE "release"] :
       pid \in FilePids \ {""}, ms \in {MARK},
       finish \in {DateStr(d) : d \in Days} \cup {""}}
    \cup {[TaskRow(PidStr(1), "T1", OPEN, "", DateStr(MaxDay)) EXCEPT
             !["task_name"] = "release"]}

\* the unified rows the loader makes of such lines
LookupFrames ==
    {coerce_dates(read_csv(OkFile(TaskColumns, rows)).frame) :
       rows \in SeqUpTo(LookupLines, MaxTasks)}

\* the clock of a lookup: from the day before the first day to the last day
LookupClock == 0..MaxDay

LookupInit ==
    /\ taskFile = NoFile("missing")
    /\ projFile = NoFile("absent")
    /\ df = NoFrame
    /\ progress_data = NoFrame
    /\ out = [kind |-> "initial"]
    /\ fs = DiskFS
    /\ call = NoCall
    /\ n_clicks = <<>>
    /\ notification = NoNotification

\* one lookup is made on the rows of one load
NextMilestone ==
    \E frame \in LookupFrames, current_date \in LookupClock :
        /\ call = NoCall
        /\ call' = [fn |-> "get_next_milestone", frame |-> frame,
                    current_date |-> current_date,
                    result |-> get_next_milestone(frame, current_date)]
        /\ UNCHANGED <<taskFile, projFile, df, progress_data, out, fs,
                       n_clicks, notification>>

FormatMilestone ==
    \E frame \in LookupFrames, current_date \in LookupClock,
       project_id \in {Str(p) : p \in FilePids \ {""}} :
        LET next_milestones == get_next_milestone(frame, current_date).frame IN
        /\ call = NoCall
        /\ call' = [fn |-> "next_milestone_format", next_milestones |-> next_milestones,
                    project_id |-> project_id, current_date |-> current_date,
                    result |-> next_milestone_format(next_milestones, project_id,
                                                     current_date)]
        /\ UNCHANGED <<taskFile, projFile, df, progress_data, out, fs,
                       n_clicks, notification>>

LookupNext == NextMilestone \/ FormatMilestone

LookupSpec == LookupInit /\ [][LookupNext]_vars

(***************************************************************************)
(* A session: refreshes, clicks on the open-path buttons, new exports      *)
(***************************************************************************)
MaxClicks == 1    \* clicks on one button of one rendered table

\* dashboard.csv with one project and with two
SessionTaskFiles ==
    {OkFile(TaskColumns, <<TaskRow(PidStr(1), "T1", OPEN, MARK, DateStr(1))>>),
     OkFile(TaskColumns, <<TaskRow(PidStr(1), "T1", OPEN, MARK, DateStr(1)),
                           TaskRow(PidStr(NumProjects), "T1", DONE, MARK, DateStr(1))>>)}

\* projects.csv naming folders and charts that do not exist
MovedProjFile ==
    OkFile(ProjColumns,
           [k \in 1..NumProjects |->
              [project_id |-> PidStr(k), project_path |-> "exports/prjB",
               ganttchart_path |-> "exports/b.xlsx"]])

SessionProjFiles == {GoodProjFile, MovedProjFile}

SessionInit ==
    /\ taskFile \in SessionTaskFiles
    /\ projFile \in SessionProjFiles
    /\ df = NoFrame
    /\ progress_data = NoFrame
    /\ out = [kind |-> "initial"]
    /\ fs = DiskFS
    /\ call = NoCall
    /\ n_clicks = <<>>
    /\ notification = NoNotification

\* the exporter rewrites the two files
Export ==
    /\ taskFile' \in SessionTaskFiles
    /\ projFile' \in SessionProjFiles
    /\ <<taskFile', projFile'>> # <<taskFile, projFile>>
    /\ UNCHANGED <<df, progress_data, out, fs, call, n_clicks, notification>>

\* the user clicks an enabled open-path button; the callback runs
ClickButton ==
    \E i \in 1..Len(buttons(out)) :
        /\ ~buttons(out)[i].disabled
        /\ n_clicks[i] < MaxClicks
        /\ n_clicks' = [n_clicks EXCEPT ![i] = @ + 1]
        /\ notification' =
              [kind |-> "handled", triggered |-> buttons(out)[i].id,
               handled |-> handle_button_click(n_clicks',
                              [j \in 1..Len(buttons(out)) |-> buttons(out)[j].id])]
        /\ UNCHANGED <<taskFile, projFile, df, progress_data, out, fs, call>>

SessionNext == UpdateDashboard \/ Export \/ ClickButton

SessionSpec == SessionInit /\ [][SessionNext]_vars

(***************************************************************************)
(* Properties                                                              *)
(***************************************************************************)
Refreshed == out.kind # "initial"

\* the loader joined the two files: the frame carries the project-level columns
Joined == {"project_path", "ganttchart_path"} \subseteq df.frame.columns

\* the aggregator produced summaries (it did not degrade to pd.DataFrame())
Aggregated == progress_columns \subseteq progress_data.frame.columns

SumTotals(progress) ==
    SumSeq([k \in 1..Len(progress.rows) |-> progress.rows[k]["total_tasks"].num])

\* the project identifiers of the lines of dashboard.csv
TaskPids == IF "project_id" \in taskFile.columns
            THEN {taskFile.rows[i]["project_id"] : i \in 1..Len(taskFile.rows)} \ {""}
            ELSE {}

\* C1: the total_tasks of the summaries add up to the number of unified rows
C1_TotalsSumToRowCount ==
    (Refreshed /\ Joined /\ Aggregated)
        => SumTotals(progress_data.frame) = len(df.frame)

\* C2: a summary with total_tasks > 0 has its progress within [0, 100]
C2_ProgressInRange ==
    Aggregated =>
        \A k \in 1..len(progress_data.frame) :
            LET row == progress_data.frame.rows[k] IN
            row["total_tasks"].num > 0 => ge(row["progress"], 0) /\ le(row["progress"], 100)

\* C3: the delayed-project counter never exceeds the total-project counter
C3_DelayedAtMostTotal ==
    Refreshed =>
        \A d, t \in 0..(MaxTasks * MaxProjRecs + 1) :
            (out.delayed_projects = str(d) /\ out.total_projects = str(t)) => d <= t

\* C4: without the chart-path column in projects.csv the refresh still yields
\* one summary per project, chart path absent, and nothing is raised
C4_MissingChartColumnStillSummarises ==
    (Refreshed /\ taskFile.status = "ok" /\ TaskColumns \subseteq taskFile.columns
       /\ projFile.status = "ok" /\ "ganttchart_path" \notin projFile.columns)
        => /\ out.kind # "raised"
           /\ len(progress_data.frame) = Cardinality(TaskPids)
           /\ \A k \in 1..len(progress_data.frame) :
                 isna(progress_data.frame.rows[k]["ganttchart_path"])

\* C5: when projects.csv is absent or lacks a path column the loader returns
\* the task rows unjoined
C5_JoinSkippedReturnsTaskRows ==
    (Refreshed /\ taskFile.status = "ok"
       /\ \/ projFile.status = "absent"
          \/ /\ projFile.status = "ok"
             /\ ~({"project_path", "ganttchart_path"} \subseteq projFile.columns))
        => df.frame.rows = read_csv(taskFile).frame.rows

\* a step of the loader fails: a file cannot be read, or the join cannot be made
LoadFails ==
    \/ taskFile.status # "ok"
    \/ projFile.status = "malformed"
    \/ /\ projFile.status = "ok" /\ "ganttchart_path" \in projFile.columns
       /\ \/ "project_id" \notin taskFile.columns
          \/ ~({"project_id", "project_path"} \subseteq projFile.columns)

\* C6: the loader never raises; when a step fails it returns an empty result
C6_LoaderNeverRaises ==
    Refreshed => /\ ~df.raised
                 /\ out.kind # "raised"
                 /\ LoadFails => df.frame = EmptyDF

C6_witness ==
    /\ Refreshed /\ df.frame = EmptyDF /\ ~df.raised
    /\ taskFile.status = "ok" /\ taskFile.rows # <<>>
    /\ projFile.status = "ok" /\ "project_path" \notin projFile.columns
    /\ "ganttchart_path" \in projFile.columns

\* C7: every date cell of a non-empty loader result is a parsed date or absent
C7_DatesParsedOrAbsent ==
    Refreshed =>
        \A i \in 1..len(df.frame) : \A c \in date_columns \cap df.frame.columns :
            IsTs(df.frame.rows[i][c]) \/ isna(df.frame.rows[i][c])

\* the first line of projects.csv with the project identifier of task line i
FirstRecord(i) ==
    LET pid == taskFile.rows[i]["project_id"]
        hits == {j \in 1..Len(projFile.rows) : projFile.rows[j]["project_id"] = pid}
    IN IF hits = {} THEN 0 ELSE CHOOSE j \in hits : \A h \in hits : j <= h

\* C8: the join maps task rows one-to-one onto unified rows, each carrying
\* the path fields of the first record of its project
C8_JoinOneToOne ==
    (Refreshed /\ Joined) =>
        /\ len(df.frame) = Len(taskFile.rows)
        /\ \A i \in 1..Len(taskFile.rows) :
              LET row == df.frame.rows[i]
                  j == FirstRecord(i)
              IN /\ row["project_id"] = read_csv(taskFile).frame.rows[i]["project_id"]
                 /\ row["project_path"] =
                       IF j = 0 THEN NaN
                       ELSE read_csv(projFile).frame.rows[j]["project_path"]

\* a step of the refresh after the load fails: the aggregator degraded, or the
\* table cannot name the next milestone
RefreshFails ==
    \/ ~Aggregated
    \/ /\ "task_name" \notin df.frame.columns
       /\ LET upcoming == get_next_milestone(df.frame, out.update_time).frame.rows
          IN \E i \in 1..Len(upcoming) : IsStr(upcoming[i]["project_id"])

IsFallback ==
    /\ out.total_projects = "0" /\ out.active_projects = "0"
    /\ out.delayed_projects = "0" /\ out.milestone_projects = "0"
    /\ DOMAIN out.table = {"message"}
    /\ out.progress_fig = [empty |-> TRUE]
    /\ out.duration_fig = [empty |-> TRUE]

\* C9: update_dashboard never raises; on a failure it returns four "0"
\* counters, a message in place of the table and two empty figures
C9_RefreshNeverRaises ==
    Refreshed => /\ out.kind # "raised"
                 /\ (LoadFails \/ RefreshFails) => IsFallback

C9_witness ==
    /\ Refreshed /\ IsFallback /\ Joined /\ Aggregated
    /\ "task_name" \notin df.frame.columns

\* C10: with zero input rows the four counters are 0, the summary list is
\* empty and no error escapes
C10_ZeroRows ==
    (Refreshed /\ (taskFile.status # "ok" \/ taskFile.rows = <<>> \/ df.frame.rows = <<>>))
        => /\ out.kind # "raised"
           /\ out.total_projects = "0" /\ out.active_projects = "0"
           /\ out.delayed_projects = "0" /\ out.milestone_projects = "0"
           /\ progress_data.frame.rows = <<>>

C10_witness ==
    /\ Refreshed /\ taskFile.status = "ok" /\ taskFile.rows = <<>>
    /\ Joined /\ out.kind = "ok" /\ out.total_projects = "0"
    /\ progress_data.frame.rows = <<>>

\* the lines of dashboard.csv that are overdue at the time of the refresh:
\* finish date strictly before the clock, status other than done
OverdueLines ==
    IF taskFile.status # "ok" THEN {}
    ELSE {i \in 1..Len(taskFile.rows) :
            /\ \E d \in Days : /\ taskFile.rows[i]["task_finish_date"] = DateStr(d)
                               /\ d < out.update_time
            /\ taskFile.rows[i]["task_status"] # DONE}

\* the projects with an overdue line
OverduePids == {taskFile.rows[i]["project_id"] : i \in OverdueLines} \ {""}

\* the table marks as delayed exactly the projects with an overdue line
DelayedRowsExact ==
    out.kind = "ok" =>
        \A k \in 1..Len(out.table.rows) :
            LET r == out.table.rows[k] IN
            r.status = "delayed" <=> r.project_id \in {Str(p) : p \in OverduePids}

\* C11: the delay detector selects exactly the overdue rows (finish strictly
\* before now, status not done) and the delayed-project counter is the number
\* of distinct project identifiers among them
C11_DelayedExactAndCounted ==
    out.kind = "ok" =>
        /\ DelayedRowsExact
        /\ out.delayed_projects = str(Cardinality(OverduePids))

\* C12: every project with an overdue task is counted by the delayed-project
\* counter and its table row is coloured danger and labelled delayed
C12_DelayedProjectFlagged ==
    Refreshed =>
        /\ \A n \in 0..(MaxTasks + 1) :
              out.delayed_projects = str(n) => n >= Cardinality(OverduePids)
        /\ \A p \in OverduePids :
              /\ "rows" \in DOMAIN out.table
              /\ \E k \in 1..Len(out.table.rows) :
                    /\ out.table.rows[k].project_id = Str(p)
                    /\ out.table.rows[k].color = "danger"
                    /\ out.table.rows[k].status = "delayed"

\* the same, for the refreshes that render the table
DelayedProjectFlaggedInTable == out.kind = "ok" => C12_DelayedProjectFlagged

\* C13: get_status_color returns danger whenever has_delay is true; otherwise
\* success from 90, info from 70 to below 90, warning from 50 to below 70 and
\* neutral below 50, each band including its lower bound
C13_StatusColorBands ==
    call.fn = "get_status_color" =>
        IF call.has_delay THEN call.result = "danger"
        ELSE "x100" \in DOMAIN call.progress =>
               LET p == call.progress.x100 IN
               /\ (p >= 9000) => call.result = "success"
               /\ (p >= 7000 /\ p < 9000) => call.result = "info"
               /\ (p >= 5000 /\ p < 7000) => call.result = "warning"
               /\ (p < 5000) => call.result = "neutral"

C13_witness ==
    /\ call.fn = "get_status_color" /\ ~call.has_delay
    /\ call.progress = X100(7000) /\ call.result = "info"

\* C14: a table row is labelled delayed if its project has a delay; otherwise
\* done if and only if its progress equals 100; otherwise in progress
C14_StatusLabel ==
    out.kind = "ok" =>
        \A k \in 1..Len(out.table.rows) :
            LET r == out.table.rows[k] IN
            r.status = IF r.project_id \in {Str(p) : p \in OverduePids} THEN "delayed"
                       ELSE IF eq(r.progress, 100) THEN "done"
                       ELSE "in_progress"

\* the projects all of whose lines in dashboard.csv have the status done
AllDonePids ==
    {p \in TaskPids : \A i \in 1..Len(taskFile.rows) :
        taskFile.rows[i]["project_id"] = p => taskFile.rows[i]["task_status"] = DONE}

\* C15: a project all of whose task rows are done has progress exactly 100
\* in its summary and the label done in its table row
C15_AllDoneIsComplete ==
    Refreshed =>
        \A p \in AllDonePids :
            /\ \E k \in 1..len(progress_data.frame) :
                  /\ progress_data.frame.rows[k]["project_id"] = Str(p)
                  /\ progress_data.frame.rows[k]["progress"] = X100(10000)
            /\ "rows" \in DOMAIN out.table
            /\ \E k \in 1..Len(out.table.rows) :
                  /\ out.table.rows[k].project_id = Str(p)
                  /\ out.table.rows[k].status = "done"

\* C16: a summary with both an earliest start and a latest finish has a
\* duration of at least zero days
C16_DurationNonNegative ==
    Aggregated =>
        \A k \in 1..len(progress_data.frame) :
            LET row == progress_data.frame.rows[k] IN
            (IsTs(row["start_date"]) /\ IsTs(row["end_date"])) => row["duration"].num >= 0

\* the first unified row of the project of summary k, in input order
FirstRowOf(k) ==
    LET pid  == progress_data.frame.rows[k]["project_id"]
        hits == {i \in 1..len(df.frame) : df.frame.rows[i]["project_id"] = pid}
    IN df.frame.rows[CHOOSE i \in hits : \A h \in hits : i <= h]

\* C17: the name, process, line, folder path and chart path of a summary are
\* the values of the first row of its project, absent when absent there
C17_FirstRowFields ==
    Aggregated =>
        \A k \in 1..len(progress_data.frame) :
            \A c \in {"project_name", "process", "line", "project_path", "ganttchart_path"} :
                progress_data.frame.rows[k][c] = FirstRowOf(k)[c]

\* the lines of project p that the milestone lookup and the monthly counter
\* treat as milestone-marked: the marker cell equals the marker
MarkedLines(p) ==
    {i \in 1..Len(taskFile.rows) :
        /\ taskFile.rows[i]["project_id"] = p
        /\ taskFile.rows[i]["task_milestone"] = MARK}

\* C18: the milestone_count of every summary is the number of milestone-marked
\* rows of its project, and a data set without any marker still yields the
\* summaries, each with milestone_count 0
C18_MilestoneCount ==
    (Refreshed /\ Joined /\ TaskColumns \subseteq taskFile.columns) =>
        \A p \in TaskPids :
            \E k \in 1..len(progress_data.frame) :
                /\ progress_data.frame.rows[k]["project_id"] = Str(p)
                /\ progress_data.frame.rows[k]["milestone_count"]
                      = Num(Cardinality(MarkedLines(p)))

\* C19: in the rows of a successful join every folder path and every chart
\* path is absent or a path the validator accepts
C19_JoinedPathsValidated ==
    (Refreshed /\ Joined) =>
        \A i \in 1..len(df.frame) : \A c \in {"project_path", "ganttchart_path"} :
            \/ isna(df.frame.rows[i][c])
            \/ ~isna(validate_file_path(df.frame.rows[i][c], TRUE))

\* the chart paths alone
JoinedChartPathsValidated ==
    (Refreshed /\ Joined) =>
        \A i \in 1..len(df.frame) :
            \/ isna(df.frame.rows[i]["ganttchart_path"])
            \/ ~isna(validate_file_path(df.frame.rows[i]["ganttchart_path"], TRUE))

\* C20: a path returned by validate_file_path exists, is readable and holds
\* none of the denied characters; a file has an allowed extension and a
\* directory is returned only when directories are allowed
C20_ValidatedPathIsSafe ==
    (call.fn = "validate_file_path" /\ ~isna(call.result)) =>
        LET p == call.result.str IN
        /\ exists(p) /\ readable(p) /\ ~has_badchar(p)
        /\ isdir(p) => call.allow_directories
        /\ ~isdir(p) => valid_ext(p)

\* the same for the paths that are not directories
ValidatedFileIsSafe ==
    (call.fn = "validate_file_path" /\ ~isna(call.result) /\ ~isdir(call.result.str))
        => C20_ValidatedPathIsSafe

\* row r is milestone-marked and finishes strictly after day t
Upcoming(r, t) ==
    /\ r["task_milestone"] = Str(MARK)
    /\ IsTs(r["task_finish_date"]) /\ r["task_finish_date"].ts > t

\* how often row r occurs in the sequence rows
Occurrences(rows, r) == Cardinality({i \in 1..Len(rows) : rows[i] = r})

\* C21: get_next_milestone returns exactly the milestone-marked rows finishing
\* strictly after the current time, earliest finish first
C21_UpcomingMilestones ==
    call.fn = "get_next_milestone" =>
        LET given    == call.frame.rows
            returned == call.result.frame.rows
        IN /\ ~call.result.raised
           /\ \A i \in 1..Len(given) :
                 Occurrences(returned, given[i]) =
                    IF Upcoming(given[i], call.current_date)
                    THEN Occurrences(given, given[i]) ELSE 0
           /\ \A j \in 1..Len(returned) : Occurrences(given, returned[j]) > 0
           /\ \A i, j \in 1..Len(returned) :
                 i < j => returned[i]["task_finish_date"].ts
                            <= returned[j]["task_finish_date"].ts

C21_witness ==
    /\ call.fn = "get_next_milestone"
    /\ Len(call.frame.rows) = 2 /\ Len(call.result.frame.rows) = 2
    /\ call.result.frame.rows[1] = call.frame.rows[2]
    /\ call.result.frame.rows[1]["task_finish_date"].ts
          < call.result.frame.rows[2]["task_finish_date"].ts

\* the upcoming rows of the project a format call asks for
RowsOfProject ==
    {i \in 1..Len(call.next_milestones.rows) :
        call.next_milestones.rows[i]["project_id"] = call.project_id}

\* C22: next_milestone_format returns the sentinel exactly when no upcoming
\* row has the project identifier; otherwise the task name of the project's
\* earliest upcoming milestone and the days from the call time to its finish
C22_NextMilestoneFormat ==
    call.fn = "next_milestone_format" =>
        /\ ~call.result.raised
        /\ (call.result.text = [sentinel |-> "-"]) <=> (RowsOfProject = {})
        /\ RowsOfProject # {} =>
              \E i \in RowsOfProject :
                 LET r == call.next_milestones.rows[i] IN
                 /\ \A j \in RowsOfProject :
                       r["task_finish_date"].ts
                         <= call.next_milestones.rows[j]["task_finish_date"].ts
                 /\ call.result.text.task_name = r["task_name"]
                 /\ call.result.text.days_until
                       = r["task_finish_date"].ts - call.current_date

C22_witness ==
    /\ call.fn = "next_milestone_format"
    /\ Cardinality(RowsOfProject) = 2
    /\ call.result.text = [task_name |-> Str("review"), days_until |-> 1]

\* the projects with a milestone-marked line finishing in the calendar month
\* of the refresh
MonthPids ==
    IF taskFile.status # "ok" THEN {}
    ELSE {taskFile.rows[i]["project_id"] :
            i \in {j \in 1..Len(taskFile.rows) :
                     /\ taskFile.rows[j]["task_milestone"] = MARK
                     /\ \E d \in Days :
                           /\ taskFile.rows[j]["task_finish_date"] = DateStr(d)
                           /\ month(d) = month(out.update_time)}} \ {""}

\* C23: the milestones-this-month counter is the number of distinct project
\* identifiers with a milestone-marked task finishing in the current month
C23_MonthlyMilestoneCount ==
    out.kind = "ok" => out.milestone_projects = str(Cardinality(MonthPids))

\* the same for the files in which every line names its project
MonthlyCountOfNamedProjects ==
    (out.kind = "ok" /\ \A i \in 1..Len(taskFile.rows) :
                           taskFile.rows[i]["project_id"] # "")
        => C23_MonthlyMilestoneCount

\* the lines of dashboard.csv whose finish date text is not a date
UnparseableLines ==
    IF taskFile.status # "ok" \/ ~(TaskColumns \subseteq taskFile.columns) THEN {}
    ELSE {i \in 1..Len(taskFile.rows) :
            /\ taskFile.rows[i]["task_finish_date"] # ""
            /\ \A d \in Days : taskFile.rows[i]["task_finish_date"] # DateStr(d)}

\* the lines of project p that carry a task identifier
IdentifiedLines(p) ==
    {i \in 1..Len(taskFile.rows) :
        taskFile.rows[i]["project_id"] = p /\ taskFile.rows[i]["task_id"] # ""}

\* C24: a line with an unparseable finish date is kept in the unified rows
\* with the date absent, is counted in the total_tasks of its project, and
\* is returned neither by check_delays nor by get_next_milestone
C24_UnparseableDateKept ==
    (Refreshed /\ UnparseableLines # {}) =>
        /\ len(df.frame) = Len(taskFile.rows)
        /\ \A i \in UnparseableLines :
              /\ isna(df.frame.rows[i]["task_finish_date"])
              /\ \E k \in 1..len(progress_data.frame) :
                    /\ progress_data.frame.rows[k]["project_id"]
                          = Str(taskFile.rows[i]["project_id"])
                    /\ progress_data.frame.rows[k]["total_tasks"]
                          = Num(Cardinality(IdentifiedLines(taskFile.rows[i]["project_id"])))
        /\ LET late == check_delays(df.frame, out.update_time)
               next == get_next_milestone(df.frame, out.update_time)
           IN /\ ~late.raised /\ ~next.raised
              /\ \A j \in 1..len(late.frame) : IsTs(late.frame.rows[j]["task_finish_date"])
              /\ \A j \in 1..len(next.frame) : IsTs(next.frame.rows[j]["task_finish_date"])

\* the same for the refreshes in which the loader joined the two files
UnparseableDateKeptWhenJoined == Joined => C24_UnparseableDateKept

UnparseableDateJoined == Refreshed /\ Joined /\ UnparseableLines # {}

\* the outputs are those of the files as they are now: one unified row per
\* line, one project per project identifier of dashboard.csv, and the chart
\* button of every table row carrying the chart of projects.csv if it exists
ReflectsFiles ==
    /\ out.kind = "ok"
    /\ len(df.frame) = Len(taskFile.rows)
    /\ out.total_projects = str(Cardinality(TaskPids))
    /\ len(progress_data.frame) = Cardinality(TaskPids)
    /\ Len(out.table.rows) = Cardinality(TaskPids)
    /\ \A k \in 1..Len(out.table.rows) :
          out.table.rows[k].links[2].id.path =
             IF projFile = GoodProjFile THEN "C:/exports/a.xlsx" ELSE ""

\* C25: after any sequence of refreshes, clicks and exports, the outputs of a
\* refresh are those of the two files as they are at that refresh
C25_RefreshReadsCurrentFiles ==
    [][(out' # out) => ReflectsFiles']_vars

C25_witness ==
    /\ ReflectsFiles
    /\ notification.kind = "handled" /\ notification.handled.opened
    /\ Len(out.table.rows) = 2
    /\ \A i \in 1..Len(buttons(out)) : buttons(out)[i].disabled

\* C26: every run of handle_button_click opens the path and uses the action
\* of the button whose click triggered it
C26_ClickOpensTriggeredButton ==
    notification.kind = "handled" =>
        /\ notification.handled.path = notification.triggered.path
        /\ notification.handled.action = notification.triggered.action

\* the same for the first click on a rendered table
FirstClickOpensTriggeredButton ==
    (SumSeq(n_clicks) = 1) => C26_ClickOpensTriggeredButton

\* C27: the identifiers of the open-path buttons of a rendered table are
\* pairwise distinct
C27_ButtonIdsDistinct ==
    \A i, j \in 1..Len(buttons(out)) :
        i # j => buttons(out)[i].id # buttons(out)[j].id

\* the same for the tables of a single project
ButtonIdsDistinctForOneProject ==
    (out.kind = "ok" /\ Len(out.table.rows) <= 1) => C27_ButtonIdsDistinct

\* C28: the five progress buckets partition the summaries, so their counts
\* add up to the total-project counter of the same refresh
C28_ProgressBucketsPartition ==
    out.kind = "ok" =>
        out.total_projects = str(SumSeq(out.progress_fig.counts))

\* the same for the summaries whose every project has a counted task
BucketsPartitionCountedProjects ==
    (Aggregated /\ \A k \in 1..len(progress_data.frame) :
        progress_data.frame.rows[k]["total_tasks"].num
          >= progress_data.frame.rows[k]["completed_tasks"].num
        /\ progress_data.frame.rows[k]["total_tasks"].num > 0)
        => C28_ProgressBucketsPartition

====
